---- MODULE Spec2Model ----
(***************************************************************************)
(* Broaching code generator of adaptix:                                    *)
(*   src/src/adaptix/_internal/conversion/broaching/code_generator.py      *)
(*                                                                         *)
(* GenState (the hygienic-name allocator over a ContextNamespace) and      *)
(* BuiltinBroachingCodeGenerator (the recursive lowering of a broaching    *)
(* plan to an expression tree, source text and a capture table).           *)
(*                                                                         *)
(* Identifiers are strings.  Literal texts and attribute names are         *)
(* sequences of one-character strings, so that repr(), isidentifier() and  *)
(* the parse of a literal are computed character by character.             *)
(***************************************************************************)
EXTENDS Integers, Sequences, FiniteSets, TLC

VARIABLES
    ctx_namespace,   \* [occupied, dict]: BuiltinContextNamespace
    prefix_counter,  \* GenState._prefix_counter (entries a defaultdict created)
    returned,        \* history: <<[name, obj]>> of every allocator call that returned
    raised,          \* the exception that ended the pass, or NoError
    call,            \* history: the last GenState / namespace call and its pre-state
    plan,            \* BuiltinBroachingCodeGenerator._plan
    signature,       \* produce_code's signature argument (the ordered parameter names)
    output           \* what produce_code returned: [source, body, captures], or NoOutput

vars == <<ctx_namespace, prefix_counter, returned, raised, call, plan, signature, output>>

-----------------------------------------------------------------------------
(* Bounds *)

\* allocator / raw add calls made on one namespace
MaxCalls == 3
\* nodes (elements) of a plan
MaxNodes == 3

-----------------------------------------------------------------------------
(* Text helpers *)

Digits == <<"0", "1", "2", "3", "4", "5", "6", "7", "8", "9">>

\* str(n) as used by the f-strings: the decimal digits of n >= 0
RECURSIVE Str(_)
Str(n) == IF n < 10 THEN Digits[n + 1] ELSE Str(n \div 10) \o Digits[(n % 10) + 1]

\* the string spelled by a sequence of one-character strings
RECURSIVE Join(_)
Join(chars) == IF chars = <<>> THEN "" ELSE Head(chars) \o Join(Tail(chars))

NoError == "none"
NameCollision == "NameCollision"
NoName == ""

-----------------------------------------------------------------------------
(* ContextNamespace: membership test and raw add *)

EmptyDict == [n \in {} |-> NoName]

\* `name in ctx_namespace`
Contains(ns, name) == name \in DOMAIN ns.dict \/ name \in ns.occupied

\* ctx_namespace.add(name, obj): fails when name is already bound or occupied
NamespaceAdd(ns, name, obj) ==
    IF Contains(ns, name)
    THEN [error |-> NameCollision, ns |-> ns]
    ELSE [error |-> NoError,
          ns |-> [ns EXCEPT !.dict =
                     [n \in DOMAIN ns.dict \cup {name} |->
                         IF n = name THEN obj ELSE ns.dict[n]]]]

\* BuiltinContextNamespace(occupied=...)
NewNamespace(occupied) == [occupied |-> occupied, dict |-> EmptyDict]

-----------------------------------------------------------------------------
(* GenState.  g = [ns, prefix_counter, returned, raised] *)

NewGenState(ns) ==
    [ns |-> ns, prefix_counter |-> [p \in {} |-> 0], returned |-> <<>>, raised |-> NoError]

\* self._prefix_counter[prefix] of the defaultdict(lambda: 0)
CounterOf(counter, prefix) == IF prefix \in DOMAIN counter THEN counter[prefix] ELSE 0

\* f'{base}_{i}'
Suffixed(base, i) == base \o "_" \o Str(i)

\* the i at which `for i in itertools.count(1)` first finds base_i not in the namespace
FirstFree(ns, base) ==
    LET top == Cardinality(DOMAIN ns.dict \cup ns.occupied) + 1
    IN CHOOSE i \in 1..top :
          /\ ~Contains(ns, Suffixed(base, i))
          /\ \A j \in 1..(i - 1) : Contains(ns, Suffixed(base, j))

\* `self._ctx_namespace.add(added, obj); return name`
AddAndReturn(g, added, name, obj) ==
    LET r == NamespaceAdd(g.ns, added, obj)
    IN IF r.error # NoError
       THEN [name |-> NoName, g |-> [g EXCEPT !.raised = r.error]]
       ELSE [name |-> name,
             g |-> [g EXCEPT !.ns = r.ns,
                             !.returned = Append(@, [name |-> name, obj |-> obj])]]

\* a mutant of register_mangled: the raw add of the collision branch binds nothing and
\* does not fail, and the probed name is returned
MutRegisterMangledSilent(g, base, obj) ==
    IF g.raised # NoError THEN [name |-> NoName, g |-> g]
    ELSE IF ~Contains(g.ns, base) THEN AddAndReturn(g, base, base, obj)
    ELSE LET name == Suffixed(base, FirstFree(g.ns, base))
         IN [name |-> name,
             g |-> [g EXCEPT !.returned = Append(@, [name |-> name, obj |-> obj])]]

\* GenState.register_mangled
RegisterMangled(g, base, obj) ==
    IF g.raised # NoError THEN [name |-> NoName, g |-> g]
    ELSE IF ~Contains(g.ns, base)
    THEN AddAndReturn(g, base, base, obj)
    ELSE LET name == Suffixed(base, FirstFree(g.ns, base))
         IN AddAndReturn(g, base, name, obj)

\* a mutant of register_next_id: the numbered name is returned without being
\* registered
MutRegisterNextIdUnbound(g, prefix, obj) ==
    IF g.raised # NoError THEN [name |-> NoName, g |-> g]
    ELSE LET number == CounterOf(g.prefix_counter, prefix)
             counted == [p \in DOMAIN g.prefix_counter \cup {prefix} |->
                            IF p = prefix THEN number + 1 ELSE g.prefix_counter[p]]
             name == Suffixed(prefix, number)
         IN [name |-> name,
             g |-> [g EXCEPT !.prefix_counter = counted,
                             !.returned = Append(@, [name |-> name, obj |-> obj])]]

\* GenState.register_next_id
RegisterNextId(g, prefix, obj) ==
    IF g.raised # NoError THEN [name |-> NoName, g |-> g]
    ELSE LET number == CounterOf(g.prefix_counter, prefix)
             counted == [p \in DOMAIN g.prefix_counter \cup {prefix} |->
                            IF p = prefix THEN number + 1 ELSE g.prefix_counter[p]]
         IN RegisterMangled([g EXCEPT !.prefix_counter = counted],
                            Suffixed(prefix, number), obj)

-----------------------------------------------------------------------------
(* Runtime objects *)

IntValue(digits) == [t |-> "int", text |-> digits]
StrValue(chars) == [t |-> "str", text |-> chars]
Opaque(id) == [t |-> "object", id |-> id]

\* special_cases_optimization.as_is_stub, another named function, a callable with no __name__
as_is_stub == [t |-> "function", name |-> "as_is_stub", id |-> 0]
FuncF == [t |-> "function", name |-> "f", id |-> 1]
PartialP == [t |-> "partial", name |-> NoName, id |-> 2]

\* getattr(func, '__name__', None)
NameOfFunc(func) == IF func.t = "function" THEN func.name ELSE NoName

\* inspect.Signature with the given parameter names, in order
SignatureObject(params) == [t |-> "Signature", params |-> params]

-----------------------------------------------------------------------------
(* Literals: get_literal_expr, repr of a str, the parse of a literal *)

NoLiteral == <<>>

HasChar(chars, c) == \E i \in 1..Len(chars) : chars[i] = c

\* the body of a str literal quoted with `quote`: backslash and that quote escaped
RECURSIVE Escape(_, _)
Escape(chars, quote) ==
    IF chars = <<>> THEN <<>>
    ELSE (IF Head(chars) \in {quote, "\\"} THEN <<"\\", Head(chars)>> ELSE <<Head(chars)>>)
         \o Escape(Tail(chars), quote)

RECURSIVE Unescape(_)
Unescape(chars) ==
    IF chars = <<>> THEN <<>>
    ELSE IF Head(chars) = "\\" /\ Len(chars) >= 2
    THEN <<chars[2]>> \o Unescape(Tail(Tail(chars)))
    ELSE <<Head(chars)>> \o Unescape(Tail(chars))

\* repr(s) of a str s (the `!r` conversion of an f-string)
ReprStr(chars) ==
    IF HasChar(chars, "'") /\ ~HasChar(chars, "\"")
    THEN <<"\"">> \o Escape(chars, "\"") \o <<"\"">>
    ELSE <<"'">> \o Escape(chars, "'") \o <<"'">>

\* get_literal_expr(obj): the literal text of obj, or None (NoLiteral)
GetLiteralExpr(obj) ==
    IF obj.t = "int" THEN obj.text
    ELSE IF obj.t = "str" THEN ReprStr(obj.text)
    ELSE NoLiteral

\* the value denoted by a literal text, as ast.parse reads it
ParseLiteral(text) ==
    IF Head(text) \in {"'", "\""}
    THEN StrValue(Unescape(SubSeq(text, 2, Len(text) - 1)))
    ELSE IntValue(text)

\* str.isidentifier() over the ASCII letters, digits and punctuation used here
Letters == {"a", "b", "d", "e", "l", "u", "v", "_"}
IsIdentifier(chars) ==
    /\ chars # <<>>
    /\ Head(chars) \in Letters
    /\ \A i \in 1..Len(chars) : chars[i] \in Letters \cup {Digits[d] : d \in 1..Len(Digits)}

-----------------------------------------------------------------------------
(* Expression trees (ast) and their text *)

NoAst == [kind |-> "None"]
Name(id) == [kind |-> "Name", id |-> id]
Constant(value) == [kind |-> "Constant", value |-> value]
Attribute(value, attr) == [kind |-> "Attribute", value |-> value, attr |-> attr]
Subscript(value, slice) == [kind |-> "Subscript", value |-> value, slice |-> slice]
Starred(value) == [kind |-> "Starred", value |-> value]
\* ast.keyword(arg=key, value=...); arg is NoName for `**value`
Keyword(key, value) == [arg |-> key, value |-> value]
Call(func, args, keywords) ==
    [kind |-> "Call", func |-> func, args |-> args, keywords |-> keywords]

RECURSIVE Unparse(_), UnparseArgs(_), UnparseKeywords(_)

\* compat_ast_unparse
Unparse(node) ==
    CASE node.kind = "Name" -> node.id
      [] node.kind = "Constant" ->
            Join(IF node.value.t = "str" THEN ReprStr(node.value.text) ELSE node.value.text)
      [] node.kind = "Attribute" -> Unparse(node.value) \o "." \o Join(node.attr)
      [] node.kind = "Subscript" -> Unparse(node.value) \o "[" \o Unparse(node.slice) \o "]"
      [] node.kind = "Starred" -> "*" \o Unparse(node.value)
      [] node.kind = "Call" ->
            Unparse(node.func) \o "("
            \o UnparseArgs(node.args)
            \o (IF node.args # <<>> /\ node.keywords # <<>> THEN ", " ELSE "")
            \o UnparseKeywords(node.keywords) \o ")"
      [] OTHER -> ""

UnparseArgs(args) ==
    IF args = <<>> THEN ""
    ELSE Unparse(Head(args))
         \o (IF Tail(args) = <<>> THEN "" ELSE ", " \o UnparseArgs(Tail(args)))

UnparseKeywords(keywords) ==
    IF keywords = <<>> THEN ""
    ELSE (IF Head(keywords).arg = NoName
          THEN "**" \o Unparse(Head(keywords).value)
          ELSE Head(keywords).arg \o "=" \o Unparse(Head(keywords).value))
         \o (IF Tail(keywords) = <<>> THEN "" ELSE ", " \o UnparseKeywords(Tail(keywords)))

-----------------------------------------------------------------------------
(* Broaching plan elements *)

NoPlan == [el |-> "None"]
ParameterElement(name) == [el |-> "ParameterElement", name |-> name]
ConstantElement(value) == [el |-> "ConstantElement", value |-> value]
FunctionElement(func, args) == [el |-> "FunctionElement", func |-> func, args |-> args]
AccessorElement(target, accessor) ==
    [el |-> "AccessorElement", target |-> target, accessor |-> accessor]

\* argument slots of a FunctionElement
PositionalArg(element) == [arg |-> "PositionalArg", key |-> NoName, element |-> element]
KeywordArg(key, element) == [arg |-> "KeywordArg", key |-> key, element |-> element]
UnpackMapping(element) == [arg |-> "UnpackMapping", key |-> NoName, element |-> element]
UnpackIterable(element) == [arg |-> "UnpackIterable", key |-> NoName, element |-> element]

DescriptorAccessor(attr_name) == [acc |-> "DescriptorAccessor", attr_name |-> attr_name]
ItemAccessor(key) == [acc |-> "ItemAccessor", key |-> key]
\* accessor.getter: the callable that applies the accessor
GetterOf(accessor) == [t |-> "getter", of |-> accessor]

-----------------------------------------------------------------------------
(* BuiltinBroachingCodeGenerator: the lowering of a plan element.              *)
(* Every _gen_* operator takes the GenState g and returns [ast, g]; once       *)
(* g.raised is set the exception propagates and nothing more is done.          *)

RECURSIVE GenPlanElementDispatch(_, _), GenArgs(_, _, _, _)

\* _gen_parameter_element
GenParameterElement(g, element) == [ast |-> Name(element.name), g |-> g]

\* a mutant of _gen_constant_element: every constant is captured, none inlined
MutGenConstantElementCapture(g, element) ==
    LET reg == RegisterNextId(g, "constant", element.value)
    IN [ast |-> IF reg.g.raised # NoError THEN NoAst ELSE Name(reg.name), g |-> reg.g]

\* _gen_constant_element
GenConstantElement(g, element) ==
    LET expr == GetLiteralExpr(element.value)
    IN IF expr # NoLiteral
       THEN [ast |-> Constant(ParseLiteral(expr)), g |-> g]
       ELSE LET reg == RegisterNextId(g, "constant", element.value)
            IN [ast |-> IF reg.g.raised # NoError THEN NoAst ELSE Name(reg.name),
                g |-> reg.g]

\* a mutant of the argument loop: each lowered slot is put in front of the ones
\* collected before it
MutGenArgsPrepend(g, slots, args, keywords) ==
    IF slots = <<>> \/ g.raised # NoError
    THEN [g |-> g, args |-> args, keywords |-> keywords]
    ELSE LET arg == Head(slots)
             sub == GenPlanElementDispatch(g, arg.element)
         IN CASE arg.arg = "PositionalArg" ->
                    GenArgs(sub.g, Tail(slots), <<sub.ast>> \o args, keywords)
              [] arg.arg = "KeywordArg" ->
                    GenArgs(sub.g, Tail(slots), args,
                            <<Keyword(arg.key, sub.ast)>> \o keywords)
              [] arg.arg = "UnpackMapping" ->
                    GenArgs(sub.g, Tail(slots), args,
                            <<Keyword(NoName, sub.ast)>> \o keywords)
              [] arg.arg = "UnpackIterable" ->
                    GenArgs(sub.g, Tail(slots), <<Starred(sub.ast)>> \o args, keywords)

\* the `for arg in element.args` loop of _gen_function_element: args and keywords
\* collected so far, the slots still to lower
GenArgs(g, slots, args, keywords) ==
    IF slots = <<>> \/ g.raised # NoError
    THEN [g |-> g, args |-> args, keywords |-> keywords]
    ELSE LET arg == Head(slots)
             sub == GenPlanElementDispatch(g, arg.element)
         IN CASE arg.arg = "PositionalArg" ->
                    GenArgs(sub.g, Tail(slots), Append(args, sub.ast), keywords)
              [] arg.arg = "KeywordArg" ->
                    GenArgs(sub.g, Tail(slots), args,
                            Append(keywords, Keyword(arg.key, sub.ast)))
              [] arg.arg = "UnpackMapping" ->
                    GenArgs(sub.g, Tail(slots), args,
                            Append(keywords, Keyword(NoName, sub.ast)))
              [] arg.arg = "UnpackIterable" ->
                    GenArgs(sub.g, Tail(slots), Append(args, Starred(sub.ast)), keywords)

\* the part of _gen_function_element that emits a call: the callable's name is
\* registered, the slots are lowered, the ast.Call is built
GenCall(g, element) ==
    LET reg == IF NameOfFunc(element.func) # NoName
               THEN RegisterMangled(g, NameOfFunc(element.func), element.func)
               ELSE RegisterNextId(g, "func", element.func)
        low == GenArgs(reg.g, element.args, <<>>, <<>>)
    IN [ast |-> IF low.g.raised # NoError
                THEN NoAst
                ELSE Call(Name(reg.name), low.args, low.keywords),
        g |-> low.g]

\* a mutant of _gen_function_element: the stub is dropped whenever it has one
\* argument, whatever the slot's kind
MutGenFunctionElementAnySlot(g, element) ==
    IF /\ element.func = as_is_stub
       /\ Len(element.args) = 1
    THEN GenPlanElementDispatch(g, element.args[1].element)
    ELSE GenCall(g, element)

\* _gen_function_element
GenFunctionElement(g, element) ==
    IF /\ element.func = as_is_stub
       /\ Len(element.args) = 1
       /\ element.args[1].arg = "PositionalArg"
    THEN GenPlanElementDispatch(g, element.args[1].element)
    ELSE GenCall(g, element)

\* a mutant of _gen_accessor_element: a descriptor accessor is always lowered to
\* dotted syntax
MutGenAccessorElementDotted(g, element) ==
    LET target == GenPlanElementDispatch(g, element.target)
        accessor == element.accessor
        literal_expr == IF accessor.acc = "ItemAccessor"
                        THEN GetLiteralExpr(accessor.key) ELSE NoLiteral
    IN IF target.g.raised # NoError THEN [ast |-> NoAst, g |-> target.g]
       ELSE IF accessor.acc = "DescriptorAccessor"
       THEN [ast |-> Attribute(target.ast, accessor.attr_name), g |-> target.g]
       ELSE IF accessor.acc = "ItemAccessor" /\ literal_expr # NoLiteral
       THEN [ast |-> Subscript(target.ast, Constant(ParseLiteral(ReprStr(literal_expr)))),
             g |-> target.g]
       ELSE LET reg == RegisterNextId(target.g, "accessor", GetterOf(accessor))
            IN [ast |-> IF reg.g.raised # NoError
                        THEN NoAst
                        ELSE Call(Name(reg.name), <<target.ast>>, <<>>),
                g |-> reg.g]

\* _gen_accessor_element
GenAccessorElement(g, element) ==
    LET target == GenPlanElementDispatch(g, element.target)
        accessor == element.accessor
        literal_expr == IF accessor.acc = "ItemAccessor"
                        THEN GetLiteralExpr(accessor.key) ELSE NoLiteral
    IN IF target.g.raised # NoError THEN [ast |-> NoAst, g |-> target.g]
       ELSE IF accessor.acc = "DescriptorAccessor"
       THEN IF IsIdentifier(accessor.attr_name)
            THEN [ast |-> Attribute(target.ast, accessor.attr_name), g |-> target.g]
            ELSE [ast |-> Call(Name("getattr"),
                               <<target.ast,
                                 Constant(ParseLiteral(ReprStr(accessor.attr_name)))>>,
                               <<>>),
                  g |-> target.g]
       ELSE IF accessor.acc = "ItemAccessor" /\ literal_expr # NoLiteral
       THEN [ast |-> Subscript(target.ast, Constant(ParseLiteral(ReprStr(literal_expr)))),
             g |-> target.g]
       ELSE LET reg == RegisterNextId(target.g, "accessor", GetterOf(accessor))
            IN [ast |-> IF reg.g.raised # NoError
                        THEN NoAst
                        ELSE Call(Name(reg.name), <<target.ast>>, <<>>),
                g |-> reg.g]

\* _gen_plan_element_dispatch
GenPlanElementDispatch(g, element) ==
    IF g.raised # NoError THEN [ast |-> NoAst, g |-> g]
    ELSE CASE element.el = "ParameterElement" -> GenParameterElement(g, element)
           [] element.el = "ConstantElement" -> GenConstantElement(g, element)
           [] element.el = "FunctionElement" -> GenFunctionElement(g, element)
           [] element.el = "AccessorElement" -> GenAccessorElement(g, element)

-----------------------------------------------------------------------------
(* BuiltinBroachingCodeGenerator.produce_code *)

HolderName == "_closure_signature"

RECURSIVE CommaJoin(_)
CommaJoin(names) ==
    IF names = <<>> THEN ""
    ELSE Head(names) \o (IF Tail(names) = <<>> THEN "" ELSE ", " \o CommaJoin(Tail(names)))

ParamNames(params) == {params[i] : i \in 1..Len(params)}

\* the text the CodeBuilder holds at the end of produce_code
SourceText(closure_name, params, body) ==
    "def " \o closure_name \o "(" \o CommaJoin(params) \o "):\n"
    \o "    return " \o Unparse(body) \o "\n"
    \o closure_name \o ".__signature__ = " \o HolderName

\* produce_code: [g, body, source]; g.raised tells whether it returned, and
\* g.ns.dict is the mapping it returns beside the source
ProduceCode(element, closure_name, params) ==
    LET ns == NewNamespace(ParamNames(params))
        state == NewGenState(ns)
        added == NamespaceAdd(ns, HolderName, SignatureObject(params))
    IN IF added.error # NoError
       THEN [g |-> [state EXCEPT !.raised = added.error], body |-> NoAst, source |-> ""]
       ELSE LET low == GenPlanElementDispatch([state EXCEPT !.ns = added.ns], element)
            IN IF low.g.raised # NoError
               THEN [g |-> low.g, body |-> NoAst, source |-> ""]
               ELSE [g |-> low.g, body |-> low.ast,
                     source |-> SourceText(closure_name, params, low.ast)]

-----------------------------------------------------------------------------
(* Inputs *)

ClosureNames == {"conversion"}

\* target signatures: the parameter names, in order
Signatures ==
    { <<"x">>, <<"x", "f", "constant_0">>, <<"x", "getattr">>,
      <<"x", "_closure_signature">> }

Funcs == {as_is_stub, FuncF, PartialP}

Leaves ==
    { ParameterElement("x"),
      ConstantElement(IntValue(<<"4", "2">>)),
      ConstantElement(Opaque(1)) }

Accessors ==
    { DescriptorAccessor(<<"v", "a", "l", "u", "e">>),
      DescriptorAccessor(<<"1", "2", "3", "b", "a", "d">>),
      ItemAccessor(IntValue(<<"1">>)),
      ItemAccessor(StrValue(<<"a">>)),
      ItemAccessor(Opaque(2)) }

SlotsOver(elements) ==
    UNION { { PositionalArg(e), KeywordArg("k", e), UnpackMapping(e), UnpackIterable(e) }
            : e \in elements }

RECURSIVE PlansOfSize(_), ArgListsOfSize(_)

\* the plans with exactly n elements, every call in them taking an argument
PlansOfSize(n) ==
    IF n = 1
    THEN Leaves
    ELSE { FunctionElement(func, args) : func \in Funcs, args \in ArgListsOfSize(n - 1) }
         \cup { AccessorElement(target, accessor) :
                    target \in PlansOfSize(n - 1), accessor \in Accessors }

\* the non-empty argument lists whose sub-plans have n elements in all
ArgListsOfSize(n) ==
    { <<slot>> : slot \in SlotsOver(PlansOfSize(n)) }
    \cup UNION { { <<slot>> \o rest :
                      slot \in SlotsOver(PlansOfSize(k)), rest \in ArgListsOfSize(n - k) }
                 : k \in 1..(n - 1) }

\* a call without arguments is drawn as a root only
Plans ==
    UNION { PlansOfSize(n) : n \in 1..MaxNodes }
    \cup { FunctionElement(func, <<>>) : func \in Funcs }

\* names and objects of the direct GenState calls
OccupiedNames == {"x", "f", "constant_0"}
Prefixes == {"constant", "f"}
Bases == {"f", "f_1", "constant_0"}
AddNames == {"_closure_signature", "f_1"}
Objects == {Opaque(1), Opaque(2)}

-----------------------------------------------------------------------------
(* Specification of one produce_code call *)

NoOutput == [source |-> "", returned |-> FALSE]
NoCall == [n |-> 0, op |-> "none"]

Init ==
    /\ plan \in Plans
    /\ signature \in Signatures
    /\ ctx_namespace = NewNamespace({})
    /\ prefix_counter = NewGenState(ctx_namespace).prefix_counter
    /\ returned = <<>>
    /\ raised = NoError
    /\ call = NoCall
    /\ output = NoOutput

\* generator.produce_code(closure_name, signature)
CallProduceCode ==
    /\ call.op = "none"
    /\ \E closure_name \in ClosureNames :
          LET r == ProduceCode(plan, closure_name, signature)
          IN /\ ctx_namespace' = r.g.ns
             /\ prefix_counter' = r.g.prefix_counter
             /\ returned' = r.g.returned
             /\ raised' = r.g.raised
             /\ call' = [n |-> 1, op |-> "produce_code"]
             /\ output' = IF r.g.raised # NoError
                          THEN NoOutput
                          ELSE [source |-> r.source, returned |-> TRUE,
                                body |-> r.body, captures |-> r.g.ns.dict]
    /\ UNCHANGED <<plan, signature>>

Next == CallProduceCode

Spec == Init /\ [][Next]_vars

-----------------------------------------------------------------------------
(* Specification of direct calls on one GenState and its namespace *)

CurrentGenState ==
    [ns |-> ctx_namespace, prefix_counter |-> prefix_counter,
     returned |-> returned, raised |-> raised]

InitGenState ==
    /\ \E occupied \in SUBSET OccupiedNames : ctx_namespace = NewNamespace(occupied)
    /\ prefix_counter = NewGenState(ctx_namespace).prefix_counter
    /\ returned = <<>>
    /\ raised = NoError
    /\ call = NoCall
    /\ plan = NoPlan
    /\ signature = <<>>
    /\ output = NoOutput

\* the pass goes on: no exception has ended it
Running == raised = NoError /\ call.n < MaxCalls

Apply(op, arg, obj, r) ==
    /\ ctx_namespace' = r.g.ns
    /\ prefix_counter' = r.g.prefix_counter
    /\ returned' = r.g.returned
    /\ raised' = r.g.raised
    /\ call' = [n |-> call.n + 1, op |-> op, arg |-> arg, obj |-> obj,
                before |-> ctx_namespace, name |-> r.name]
    /\ UNCHANGED <<plan, signature, output>>

\* ctx_namespace.add(name, obj)
CallAdd ==
    /\ Running
    /\ \E name \in AddNames, obj \in Objects :
          LET added == NamespaceAdd(ctx_namespace, name, obj)
          IN Apply("add", name, obj,
                   [name |-> NoName,
                    g |-> [CurrentGenState EXCEPT !.ns = added.ns,
                                                  !.raised = added.error]])

\* state.register_next_id(prefix, obj)
CallRegisterNextId ==
    /\ Running
    /\ \E prefix \in Prefixes, obj \in Objects :
          Apply("register_next_id", prefix, obj,
                RegisterNextId(CurrentGenState, prefix, obj))

\* state.register_mangled(base, obj)
CallRegisterMangled ==
    /\ Running
    /\ \E base \in Bases, obj \in Objects :
          Apply("register_mangled", base, obj,
                RegisterMangled(CurrentGenState, base, obj))

NextGenState == CallAdd \/ CallRegisterNextId \/ CallRegisterMangled

SpecGenState == InitGenState /\ [][NextGenState]_vars

-----------------------------------------------------------------------------
(* Properties of GenState, under SpecGenState *)

AllocatorCall == call.op \in {"register_next_id", "register_mangled"}

\* C1: every name an allocator call (register_next_id, register_mangled) returned
\* differs from every name returned by an earlier call of the pass and from every
\* occupied (formal parameter) name.
C1_ReturnedNamesAreFresh ==
    \A i \in 1..Len(returned) :
        /\ returned[i].name \notin ctx_namespace.occupied
        /\ \A j \in 1..(i - 1) : returned[j].name # returned[i].name

\* three names handed out on a namespace that has occupied names, the last by
\* register_mangled
C1_Witness ==
    /\ Len(returned) = 3
    /\ ctx_namespace.occupied # {}
    /\ call.op = "register_mangled"
    /\ call.name # NoName

\* C2: register_next_id and register_mangled always succeed: no allocator call ends
\* with the namespace's name-collision error, also when the candidate name is bound
\* or occupied.
C2_AllocatorNeverCollides ==
    AllocatorCall => raised # NameCollision

\* the name register_mangled(base, obj) is to return on namespace ns: base when it
\* is free, else base_i for the smallest i >= 1 with base_i free
MangledName(ns, base) ==
    IF ~Contains(ns, base) THEN base
    ELSE LET free == { i \in 1..(Cardinality(DOMAIN ns.dict \cup ns.occupied) + 1) :
                          ~Contains(ns, Suffixed(base, i)) }
         IN Suffixed(base, CHOOSE i \in free : \A j \in free : i <= j)

\* C3: register_mangled(base, obj) returns base when base is neither bound nor
\* occupied, else base_i for the smallest i >= 1 with base_i neither bound nor
\* occupied, and afterwards the namespace binds the returned name, and no other new
\* name, to obj.
C3_RegisterMangledBindsReturnedName ==
    call.op = "register_mangled" =>
        LET name == MangledName(call.before, call.arg)
        IN /\ raised = NoError
           /\ call.name = name
           /\ DOMAIN ctx_namespace.dict = DOMAIN call.before.dict \cup {name}
           /\ ctx_namespace.dict[name] = call.obj
           /\ \A n \in DOMAIN call.before.dict : ctx_namespace.dict[n] = call.before.dict[n]

-----------------------------------------------------------------------------
(* Properties of produce_code, under Spec *)

Produced == call.op = "produce_code"

\* the one closure name produce_code is called with
TheClosureName == CHOOSE c \in ClosureNames : TRUE

\* produce_code applied to a sub-plan on its own, under the same signature
Alone(element) == ProduceCode(element, TheClosureName, signature)

\* the text of the emitted function whose return expression reads `expr`
FunctionText(expr) ==
    "def " \o TheClosureName \o "(" \o CommaJoin(signature) \o "):\n"
    \o "    return " \o expr \o "\n"
    \o TheClosureName \o ".__signature__ = _closure_signature"

\* the text of a literal-safe value
LiteralText(value) ==
    IF value.t = "int" THEN Join(value.text) ELSE "'" \o Join(value.text) \o "'"

LiteralSafe(value) == value.t \in {"int", "str"}

ConstantRoot == plan.el = "ConstantElement"

\* the statement of C4 as the claim has it: the capture table of a literal-safe
\* constant root is empty, that of a non-literal constant root has exactly one entry
C4_CaptureTableAsClaimed ==
    (Produced /\ ConstantRoot) =>
        /\ output.returned
        /\ IF LiteralSafe(plan.value)
           THEN /\ output.source = FunctionText(LiteralText(plan.value))
                /\ DOMAIN output.captures = {}
           ELSE \E name \in DOMAIN output.captures :
                   /\ DOMAIN output.captures = {name}
                   /\ output.captures[name] = plan.value
                   /\ output.source = FunctionText(name)

\* produce_code on a ConstantElement root meets a name that is already a parameter:
\* the signature holder, or the first name under the constant prefix
ConstantRootCollides ==
    \/ "_closure_signature" \in ParamNames(signature)
    \/ ~LiteralSafe(plan.value) /\ "constant_0" \in ParamNames(signature)

\* C4 (amended): for a plan whose root is a ConstantElement, produce_code raises the
\* name-collision error exactly when a parameter is named _closure_signature, or
\* constant_0 with a non-literal value; whenever it returns, a literal-safe value
\* gives source text holding that literal and a capture table whose only entry is
\* _closure_signature, bound to the signature, and a non-literal object gives a
\* capture table of exactly two entries, _closure_signature and one allocated name
\* bound to that object, and source text that references that name.
C4_ConstantRootCaptures ==
    (Produced /\ ConstantRoot) =>
        IF ConstantRootCollides
        THEN raised = NameCollision /\ ~output.returned
        ELSE /\ output.returned
             /\ output.captures["_closure_signature"] = SignatureObject(signature)
             /\ IF LiteralSafe(plan.value)
                THEN /\ output.source = FunctionText(LiteralText(plan.value))
                     /\ output.body = Constant(plan.value)
                     /\ DOMAIN output.captures = {"_closure_signature"}
                ELSE \E name \in DOMAIN output.captures \ {"_closure_signature"} :
                        /\ DOMAIN output.captures = {"_closure_signature", name}
                        /\ output.captures[name] = plan.value
                        /\ output.body = Name(name)
                        /\ output.source = FunctionText(name)

\* produce_code returned for the root Constant 42
C4_Witness ==
    /\ output.returned
    /\ plan = ConstantElement(IntValue(<<"4", "2">>))
    /\ output.source = FunctionText("42")
    /\ DOMAIN output.captures = {"_closure_signature"}

\* C5: the capture table produce_code returns holds every name an allocator call
\* returned during the pass, mapped to the object passed when it was allocated.
C5_CapturesHoldAllocatedNames ==
    output.returned =>
        \A i \in 1..Len(returned) :
            /\ returned[i].name \in DOMAIN output.captures
            /\ output.captures[returned[i].name] = returned[i].obj

\* a returned pass that allocated a callable's name and a constant's name
C5_Witness ==
    /\ output.returned
    /\ Len(returned) >= 2
    /\ \E i, j \in 1..Len(returned) :
          returned[i].obj.t = "function" /\ returned[j].obj.t = "object"


StubRoot == plan.el = "FunctionElement" /\ plan.func = as_is_stub

SinglePositional(args) == Len(args) = 1 /\ args[1].arg = "PositionalArg"

\* C6: a FunctionElement of as_is_stub with a single PositionalArg lowers to exactly
\* what its argument sub-plan lowers to on its own, with no name allocated for the
\* stub; the stub with any other argument shape is lowered as an ordinary call of a
\* name bound to the stub.
C6_IdentityStubElimination ==
    (Produced /\ StubRoot) =>
        IF SinglePositional(plan.args)
        THEN LET alone == Alone(plan.args[1].element)
             IN /\ raised = alone.g.raised
                /\ returned = alone.g.returned
                /\ output.returned =>
                      /\ output.body = alone.body
                      /\ output.source = alone.source
                      /\ output.captures = alone.g.ns.dict
        ELSE output.returned =>
                /\ output.body.kind = "Call"
                /\ output.body.func = Name("as_is_stub")
                /\ Len(output.body.args) + Len(output.body.keywords) = Len(plan.args)
                /\ returned[1] = [name |-> "as_is_stub", obj |-> as_is_stub]
                /\ output.captures["as_is_stub"] = as_is_stub

\* the stub around an accessor of a parameter was dropped
C6_Witness ==
    /\ output.returned
    /\ StubRoot
    /\ SinglePositional(plan.args)
    /\ plan.args[1].element.el = "AccessorElement"
    /\ output.body.kind = "Attribute"
    /\ returned = <<>>

DescriptorRoot ==
    plan.el = "AccessorElement" /\ plan.accessor.acc = "DescriptorAccessor"

CallRoot ==
    /\ plan.el = "FunctionElement"
    /\ ~(plan.func = as_is_stub /\ SinglePositional(plan.args))

\* the argument slots of an emitted call, left to right as its text shows them:
\* the args, then the keywords
EmittedSlots(node) ==
    [i \in 1..Len(node.args) |->
        IF node.args[i].kind = "Starred"
        THEN [arg |-> "UnpackIterable", key |-> NoName, ast |-> node.args[i].value]
        ELSE [arg |-> "PositionalArg", key |-> NoName, ast |-> node.args[i]]]
    \o
    [i \in 1..Len(node.keywords) |->
        IF node.keywords[i].arg = NoName
        THEN [arg |-> "UnpackMapping", key |-> NoName, ast |-> node.keywords[i].value]
        ELSE [arg |-> "KeywordArg", key |-> node.keywords[i].arg,
              ast |-> node.keywords[i].value]]

\* the slots of element.args in declaration order, each with the expression its
\* sub-plan lowers to when the slots are lowered one after the other from state g
RECURSIVE DeclaredSlots(_, _)
DeclaredSlots(g, slots) ==
    IF slots = <<>> THEN <<>>
    ELSE LET sub == GenPlanElementDispatch(g, Head(slots).element)
         IN <<[arg |-> Head(slots).arg, key |-> Head(slots).key, ast |-> sub.ast]>>
            \o DeclaredSlots(sub.g, Tail(slots))

\* the state in which the slots of the root call are lowered: the signature holder
\* is bound and the callable's name is registered
StateAtSlots ==
    LET ns == NamespaceAdd(NewNamespace(ParamNames(signature)), "_closure_signature",
                           SignatureObject(signature)).ns
        g == [NewGenState(ns) EXCEPT !.ns = ns]
    IN IF NameOfFunc(plan.func) # NoName
       THEN RegisterMangled(g, NameOfFunc(plan.func), plan.func).g
       ELSE RegisterNextId(g, "func", plan.func).g

PositionalLike(slot) == slot.arg \in {"PositionalArg", "UnpackIterable"}
KeywordLike(slot) == slot.arg \in {"KeywordArg", "UnpackMapping"}

\* the statement of C8 as the claim has it: the emitted call shows the slots in the
\* order element.args declares them, whatever their kinds
C8_SlotsInDeclarationOrder ==
    (output.returned /\ CallRoot) =>
        EmittedSlots(output.body) = DeclaredSlots(StateAtSlots, plan.args)

\* C8 (amended): the emitted call shows the positional and sequence-unpack slots in
\* the order element.args declares them, followed by the keyword and mapping-unpack
\* slots in the order element.args declares them.
C8_SlotsInOrderWithinGroup ==
    (output.returned /\ CallRoot) =>
        LET declared == DeclaredSlots(StateAtSlots, plan.args)
        IN EmittedSlots(output.body) =
              SelectSeq(declared, PositionalLike) \o SelectSeq(declared, KeywordLike)

\* a returned call whose keyword slot is declared before a positional slot
C8_Witness ==
    /\ output.returned
    /\ CallRoot
    /\ Len(plan.args) = 2
    /\ plan.args[1].arg = "KeywordArg"
    /\ plan.args[2].arg = "PositionalArg"
    /\ plan.args[1].element # plan.args[2].element
    /\ Len(output.body.args) = 1
    /\ Len(output.body.keywords) = 1

ItemRoot == plan.el = "AccessorElement" /\ plan.accessor.acc = "ItemAccessor"

\* C9: an AccessorElement with an ItemAccessor whose key is literal-safe lowers to
\* <target>[<key>] with the subscript denoting the key itself (same value and type)
\* and allocates no name; with a key that is not literal-safe exactly one name under
\* the accessor prefix is allocated, bound to the accessor's getter, and the lowering
\* is <name>(<target>).
C9_ItemAccessorLowering ==
    (output.returned /\ ItemRoot) =>
        LET alone == Alone(plan.target)
        IN IF LiteralSafe(plan.accessor.key)
           THEN /\ output.body = Subscript(alone.body, Constant(plan.accessor.key))
                /\ returned = alone.g.returned
           ELSE /\ returned = Append(alone.g.returned,
                                     [name |-> "accessor_0",
                                      obj |-> GetterOf(plan.accessor)])
                /\ output.body = Call(Name("accessor_0"), <<alone.body>>, <<>>)

RECURSIVE EmitsGetattr(_)
\* whether the lowering of the element emits a call of the getattr helper
EmitsGetattr(element) ==
    CASE element.el = "AccessorElement" ->
            \/ /\ element.accessor.acc = "DescriptorAccessor"
               /\ ~IsIdentifier(element.accessor.attr_name)
            \/ EmitsGetattr(element.target)
      [] element.el = "FunctionElement" ->
            \E i \in 1..Len(element.args) : EmitsGetattr(element.args[i].element)
      [] OTHER -> FALSE

\* C10: whatever the parameters of the target signature are called, produce_code
\* completes without a name collision, and every identifier it introduces (the
\* signature holder, the getattr helper where emitted, every allocated name) differs
\* from every formal parameter name.
C10_IntroducedNamesAvoidParameters ==
    Produced =>
        /\ raised # NameCollision
        /\ "_closure_signature" \notin ParamNames(signature)
        /\ EmitsGetattr(plan) => "getattr" \notin ParamNames(signature)
        /\ \A i \in 1..Len(returned) : returned[i].name \notin ParamNames(signature)

====
